---- MODULE Spec2Model ----
(***************************************************************************)
(* A model of phy/cluster/manual/store.py: the MemoryStore and DiskStore   *)
(* tiers, the Store that dispatches fields between them, and the           *)
(* ClusterStore that registers StoreItem providers and propagates          *)
(* clustering updates.                                                     *)
(***************************************************************************)
EXTENDS Integers, Sequences, FiniteSets, TLC

VARIABLES
    hasDisk,    \* Store._disk_store is not None
    mem,        \* MemoryStore._ds : cluster -> (key -> value)
    disk,       \* the DiskStore directory : file name -> (key -> value)
    dispatch,   \* Store._dispatch : field -> 'memory' | 'disk'
    spc,        \* ClusterStore._spikes_per_cluster : cluster -> spikes
    items,      \* ClusterStore._items : sequence of registered item classes
    attrs,      \* attributes set on the ClusterStore : name -> bound field
    call,       \* the last call made, with its arguments
    ret,        \* what the last call returned or raised
    prev,       \* the ClusterStore as it was when the last call was made
    calls,      \* the StoreItem methods the last call invoked, in order
    generated,  \* generate was called, and since then update only
    steps       \* number of calls made so far

vars ==
    <<hasDisk, mem, disk, dispatch, spc, items, attrs, call, ret, prev, calls,
      generated, steps>>

-----------------------------------------------------------------------------
(* Bounds and input sets *)

MaxSteps == 3

Clusters == {3, 100000}
Fields == {"a", "b"}
Locations == {"memory", "disk"}
(* location=None, and a location that is neither 'memory' nor 'disk' *)
NoLocation == "None"
BadLocation == "cloud"

(* The values stored are arrays of numbers; Python's None is distinct from
   every array. *)
None == [none |-> TRUE, arr |-> <<>>]
Arr(a) == [none |-> FALSE, arr |-> a]

EmptyMap == [k \in {} |-> None]

(* dict.update *)
DictUpdate(d, e) ==
    [k \in DOMAIN d \cup DOMAIN e |-> IF k \in DOMAIN e THEN e[k] ELSE d[k]]

(* dict.get(key, default) *)
DictGet(d, key, default) == IF key \in DOMAIN d THEN d[key] ELSE default

(* del d[key] for every key of ks that is in d *)
DictDel(d, ks) == [k \in DOMAIN d \ ks |-> d[k]]

Range(s) == {s[i] : i \in DOMAIN s}

(* The data passed as **data: no field, one field, the other field, and
   both fields with other values. *)
DataMaps ==
    {EmptyMap, [a |-> Arr(<<1>>)], [b |-> Arr(<<4>>)],
     [a |-> Arr(<<4>>), b |-> Arr(<<1>>)]}

(* The keys argument of load: None, one string, or a list of strings. *)
KeysNone == [kind |-> "none"]
KeysStr(k) == [kind |-> "str", key |-> k]
KeysList(l) == [kind |-> "list", keys |-> l]
KeyArgs == {KeysNone} \cup {KeysStr(k) : k \in Fields}
              \cup {KeysList(<<"a", "b">>), KeysList(<<"b">>)}

(* The lists of clusters passed to delete. *)
ClusterLists == {<<3>>, <<100000>>, <<3, 100000>>}

(* sorted(S) for a finite set of integers *)
RECURSIVE Sorted(_)
Sorted(S) ==
    IF S = {} THEN <<>>
    ELSE LET m == CHOOSE x \in S : \A y \in S : x <= y
         IN <<m>> \o Sorted(S \ {m})

(* Results of a call: a returned value or a raised exception. *)
Returned(v) == [tag |-> "ok", val |-> v]
Raised(e) == [tag |-> e, val |-> None]

-----------------------------------------------------------------------------
(* MemoryStore *)


(* MemoryStore.store that replaces what the cluster holds by the data. *)
MemoryStore_store_replace(ds, cluster, data) ==
    [c \in DOMAIN ds \cup {cluster} |-> IF c = cluster THEN data ELSE ds[c]]

MemoryStore_store(ds, cluster, data) ==
    LET ds1 == IF cluster \notin DOMAIN ds
               THEN [c \in DOMAIN ds \cup {cluster} |->
                        IF c = cluster THEN EmptyMap ELSE ds[c]]
               ELSE ds
    IN [ds1 EXCEPT ![cluster] = DictUpdate(ds1[cluster], data)]

MemoryStore_load(ds, cluster, keys) ==
    IF keys.kind = "none" THEN DictGet(ds, cluster, EmptyMap)
    ELSE IF keys.kind = "str"
         THEN DictGet(DictGet(ds, cluster, EmptyMap), keys.key, None)
         ELSE [key \in Range(keys.keys) |->
                  DictGet(DictGet(ds, cluster, EmptyMap), key, None)]

MemoryStore_clusters(ds) == Sorted(DOMAIN ds)

MemoryStore_delete(ds, clusters) ==
    DictDel(ds, {c \in Range(clusters) : c \in DOMAIN ds})

MemoryStore_clear(ds) == MemoryStore_delete(ds, MemoryStore_clusters(ds))

-----------------------------------------------------------------------------
(* DiskStore: one file per cluster, named by the zero-padded cluster id. *)

Width == 5

RECURSIVE Digits(_)
Digits(n) == IF n < 10 THEN <<n>> ELSE Digits(n \div 10) \o <<n % 10>>

RECURSIVE ZeroPad(_)
ZeroPad(s) == IF Len(s) < Width THEN ZeroPad(<<0>> \o s) ELSE s

(* '{0:05d}.h5'.format(cluster): the digits of the file's stem *)
DiskStore_cluster_path(cluster) == ZeroPad(Digits(cluster))

RECURSIVE ParseInt(_)
(* int(op.splitext(file)[0]) *)
ParseInt(s) ==
    IF Len(s) = 0 THEN 0
    ELSE 10 * ParseInt(SubSeq(s, 1, Len(s) - 1)) + s[Len(s)]

DiskStore_cluster_file_exists(files, cluster) ==
    DiskStore_cluster_path(cluster) \in DOMAIN files

(* _get: the dataset of a key in an open file, None when there is none *)
DiskStore_get(f, key) == IF key \in DOMAIN f THEN f[key] ELSE None

DiskStore_store(files, cluster, data) ==
    LET path == DiskStore_cluster_path(cluster)
        (* open_h5(path, 'a') opens the file, creating it when absent *)
        f == IF path \in DOMAIN files THEN files[path] ELSE EmptyMap
    IN [p \in DOMAIN files \cup {path} |->
           IF p = path THEN DictUpdate(f, data) ELSE files[p]]

(* DiskStore.load that returns an empty dictionary for a list of keys of a
   cluster that has no file. *)
DiskStore_load_empty_for_list(files, cluster, keys) ==
    IF ~DiskStore_cluster_file_exists(files, cluster)
    THEN IF keys.kind = "str" THEN None ELSE EmptyMap
    ELSE LET f == files[DiskStore_cluster_path(cluster)]
         IN IF keys.kind = "str" THEN DiskStore_get(f, keys.key)
            ELSE LET ks == IF keys.kind = "none" THEN DOMAIN f
                           ELSE Range(keys.keys)
                 IN [key \in ks |-> DiskStore_get(f, key)]

DiskStore_load(files, cluster, keys) ==
    IF ~DiskStore_cluster_file_exists(files, cluster)
    THEN IF keys.kind = "none" THEN EmptyMap
         ELSE IF keys.kind = "str" THEN None
         ELSE [key \in Range(keys.keys) |-> None]
    ELSE LET f == files[DiskStore_cluster_path(cluster)]
         IN IF keys.kind = "str" THEN DiskStore_get(f, keys.key)
            ELSE LET ks == IF keys.kind = "none" THEN DOMAIN f
                           ELSE Range(keys.keys)
                 IN [key \in ks |-> DiskStore_get(f, key)]

DiskStore_clusters(files) == Sorted({ParseInt(file) : file \in DOMAIN files})

DiskStore_delete(files, clusters) ==
    DictDel(files, {DiskStore_cluster_path(c) : c \in
                       {c \in Range(clusters) :
                           DiskStore_cluster_file_exists(files, c)}})

DiskStore_clear(files) == DiskStore_delete(files, DiskStore_clusters(files))

-----------------------------------------------------------------------------
(* Store: a MemoryStore, an optional DiskStore and the dispatch table. *)

(* The Store object as a value, as a call finds it. During the call it
   carries, besides, the StoreItem methods invoked so far (log) and the
   exception that is propagating, if any (exc). *)
St ==
    [hasDisk |-> hasDisk, mem |-> mem, disk |-> disk, dispatch |-> dispatch,
     log |-> <<>>, exc |-> "ok"]

(* An outcome of a method that changes the store: the store it leaves and
   the exception it raised ("ok" when it returned). *)
Outcome(st, exc) == [st |-> st, exc |-> exc]

(* _check_location returns normally *)
Store_check_location(location) == location \in Locations

Store_register_field(st, name, location) ==
    IF ~Store_check_location(location)
    THEN Outcome(st, "ValueError")
    ELSE Outcome([st EXCEPT !.dispatch = DictUpdate(@, name :> location)],
                 "ok")

(* _filter on a list of keys: the keys registered in location, in order *)
Store_filter(st, keys, location) ==
    SelectSeq(keys, LAMBDA key : /\ key \in DOMAIN st.dispatch
                                 /\ st.dispatch[key] = location)

(* _filter on the keys argument of load: None stays None *)
Store_filter_keys(st, keys, location) ==
    IF keys.kind = "none" THEN KeysNone
    ELSE KeysList(Store_filter(st, keys.keys, location))

(* data.keys() as a list *)
RECURSIVE KeyList(_)
KeyList(S) ==
    IF S = {} THEN <<>>
    ELSE LET k == CHOOSE x \in S : TRUE IN <<k>> \o KeyList(S \ {k})

(* Store.store that opens the cluster file only when some field goes to
   disk. *)
Store_store_skip_empty_disk(st, cluster, location, data) ==
    LET st1 == IF location \in Locations
               THEN [st EXCEPT !.dispatch =
                        DictUpdate(@, [key \in DOMAIN data |-> location])]
               ELSE st
        data_memory == [k \in Range(Store_filter(st1, KeyList(DOMAIN data),
                                                 "memory")) |-> data[k]]
        st2 == [st1 EXCEPT !.mem = MemoryStore_store(@, cluster, data_memory)]
        data_disk == [k \in Range(Store_filter(st1, KeyList(DOMAIN data),
                                               "disk")) |-> data[k]]
        st3 == IF st.hasDisk /\ DOMAIN data_disk # {}
               THEN [st2 EXCEPT !.disk = DiskStore_store(@, cluster, data_disk)]
               ELSE st2
    IN IF location \notin Locations /\ location # NoLocation
       THEN Outcome(st, "ValueError")
       ELSE Outcome(st3, "ok")

(* Store.store that splits the data by the dispatch table as it was before
   the fields were registered in location. *)
Store_store_filter_first(st, cluster, location, data) ==
    LET st1 == IF location \in Locations
               THEN [st EXCEPT !.dispatch =
                        DictUpdate(@, [key \in DOMAIN data |-> location])]
               ELSE st
        data_memory == [k \in Range(Store_filter(st, KeyList(DOMAIN data),
                                                 "memory")) |-> data[k]]
        st2 == [st1 EXCEPT !.mem = MemoryStore_store(@, cluster, data_memory)]
        data_disk == [k \in Range(Store_filter(st, KeyList(DOMAIN data),
                                               "disk")) |-> data[k]]
        st3 == IF st.hasDisk
               THEN [st2 EXCEPT !.disk = DiskStore_store(@, cluster, data_disk)]
               ELSE st2
    IN IF location \notin Locations /\ location # NoLocation
       THEN Outcome(st, "ValueError")
       ELSE Outcome(st3, "ok")


(* Store.store that checks the location after it has written. *)
Store_store_check_last(st, cluster, location, data) ==
    LET st1 == IF location \in Locations
               THEN [st EXCEPT !.dispatch =
                        DictUpdate(@, [key \in DOMAIN data |-> location])]
               ELSE st
        data_memory == [k \in Range(Store_filter(st1, KeyList(DOMAIN data),
                                                 "memory")) |-> data[k]]
        st2 == [st1 EXCEPT !.mem = MemoryStore_store(@, cluster, data_memory)]
        data_disk == [k \in Range(Store_filter(st1, KeyList(DOMAIN data),
                                               "disk")) |-> data[k]]
        st3 == IF st.hasDisk
               THEN [st2 EXCEPT !.disk = DiskStore_store(@, cluster, data_disk)]
               ELSE st2
    IN IF location \notin Locations /\ location # NoLocation
       THEN Outcome(st3, "ValueError")
       ELSE Outcome(st3, "ok")

(* Store.store that keeps in memory the fields the dispatch table does not
   know. *)
Store_store_default_memory(st, cluster, location, data) ==
    LET st1 == IF location \in Locations
               THEN [st EXCEPT !.dispatch =
                        DictUpdate(@, [key \in DOMAIN data |-> location])]
               ELSE st
        data_memory == [k \in Range(Store_filter(st1, KeyList(DOMAIN data),
                                                 "memory"))
                              \cup (DOMAIN data \ DOMAIN st1.dispatch) |->
                           data[k]]
        st2 == [st1 EXCEPT !.mem = MemoryStore_store(@, cluster, data_memory)]
        data_disk == [k \in Range(Store_filter(st1, KeyList(DOMAIN data),
                                               "disk")) |-> data[k]]
        st3 == IF st.hasDisk
               THEN [st2 EXCEPT !.disk = DiskStore_store(@, cluster, data_disk)]
               ELSE st2
    IN IF location \notin Locations /\ location # NoLocation
       THEN Outcome(st, "ValueError")
       ELSE Outcome(st3, "ok")

Store_store(st, cluster, location, data) ==
    LET st1 == IF location \in Locations
               THEN [st EXCEPT !.dispatch =
                        DictUpdate(@, [key \in DOMAIN data |-> location])]
               ELSE st
        data_memory == [k \in Range(Store_filter(st1, KeyList(DOMAIN data),
                                                 "memory")) |-> data[k]]
        st2 == [st1 EXCEPT !.mem = MemoryStore_store(@, cluster, data_memory)]
        data_disk == [k \in Range(Store_filter(st1, KeyList(DOMAIN data),
                                               "disk")) |-> data[k]]
        st3 == IF st.hasDisk
               THEN [st2 EXCEPT !.disk = DiskStore_store(@, cluster, data_disk)]
               ELSE st2
    IN IF location \notin Locations /\ location # NoLocation
       THEN Outcome(st, "ValueError")
       ELSE Outcome(st3, "ok")

(* _concatenate_dicts(a, b): b is applied after a *)
concatenate_dicts(a, b) == DictUpdate(a, b)


(* Store.load that merges the memory values over the disk values. *)
Store_load_memory_over_disk(st, cluster, keys) ==
    IF keys.kind = "str"
    THEN IF keys.key \notin DOMAIN st.dispatch THEN Raised("KeyError")
         ELSE IF st.dispatch[keys.key] = "memory"
         THEN Returned(MemoryStore_load(st.mem, cluster, keys))
         ELSE IF ~st.hasDisk THEN Raised("AttributeError")
         ELSE Returned(DiskStore_load(st.disk, cluster, keys))
    ELSE LET data_memory ==
                 MemoryStore_load(st.mem, cluster,
                                  Store_filter_keys(st, keys, "memory"))
             data_disk ==
                 IF st.hasDisk
                 THEN DiskStore_load(st.disk, cluster,
                                     Store_filter_keys(st, keys, "disk"))
                 ELSE EmptyMap
         IN Returned(concatenate_dicts(data_disk, data_memory))

Store_load(st, cluster, keys) ==
    IF keys.kind = "str"
    THEN IF keys.key \notin DOMAIN st.dispatch THEN Raised("KeyError")
         ELSE IF st.dispatch[keys.key] = "memory"
         THEN Returned(MemoryStore_load(st.mem, cluster, keys))
         ELSE IF ~st.hasDisk THEN Raised("AttributeError")
         ELSE Returned(DiskStore_load(st.disk, cluster, keys))
    ELSE LET data_memory ==
                 MemoryStore_load(st.mem, cluster,
                                  Store_filter_keys(st, keys, "memory"))
             data_disk ==
                 IF st.hasDisk
                 THEN DiskStore_load(st.disk, cluster,
                                     Store_filter_keys(st, keys, "disk"))
                 ELSE EmptyMap
         IN Returned(concatenate_dicts(data_memory, data_disk))

(* Store.clusters that compares the numbers of clusters only. *)
Store_clusters_by_length(st) ==
    LET clusters_memory == MemoryStore_clusters(st.mem)
    IN IF ~st.hasDisk THEN Returned(clusters_memory)
       ELSE IF Len(clusters_memory) # Len(DiskStore_clusters(st.disk))
       THEN Raised("RuntimeError")
       ELSE Returned(clusters_memory)

Store_clusters(st) ==
    LET clusters_memory == MemoryStore_clusters(st.mem)
    IN IF ~st.hasDisk THEN Returned(clusters_memory)
       ELSE IF clusters_memory # DiskStore_clusters(st.disk)
       THEN Raised("RuntimeError")
       ELSE Returned(clusters_memory)

Store_clear(st) ==
    LET st1 == [st EXCEPT !.mem = MemoryStore_clear(@)]
    IN IF st.hasDisk THEN [st1 EXCEPT !.disk = DiskStore_clear(@)] ELSE st1

(* Store.delete that deletes from the memory store only. *)
Store_delete_memory_only(st, clusters) ==
    [st EXCEPT !.mem = MemoryStore_delete(@, clusters)]

Store_delete(st, clusters) ==
    LET st1 == [st EXCEPT !.mem = MemoryStore_delete(@, clusters)]
    IN IF st.hasDisk THEN [st1 EXCEPT !.disk = DiskStore_delete(@, clusters)]
       ELSE st1

-----------------------------------------------------------------------------
(* ClusterStore and StoreItem *)

(* The StoreItem subclasses that get registered, each with its fields. *)
ItemClasses == {"ItemA", "ItemB", "ItemAB", "ItemF", "ItemDup", "ItemLoad"}

ItemFields(item_cls) ==
    IF item_cls = "ItemA" THEN << <<"a", "memory">> >>
    ELSE IF item_cls = "ItemB" THEN << <<"b", "disk">> >>
    ELSE IF item_cls = "ItemAB" THEN << <<"a", "disk">>, <<"b", "memory">> >>
    ELSE IF item_cls = "ItemF" THEN << <<"c", "memory">> >>
    ELSE IF item_cls = "ItemDup" THEN << <<"d", "memory">>, <<"d", "disk">> >>
    ELSE << <<"load", "memory">> >>

(* ItemF's store_from_model raises; the other items' stores what they
   compute. *)
ItemRaises(item_cls) == item_cls = "ItemF"

ItemFieldNames(item_cls) ==
    {ItemFields(item_cls)[i][1] : i \in DOMAIN ItemFields(item_cls)}

(* What an item computes from the model for one field and the spikes of a
   cluster: one number per spike. *)
Compute(name, spikes) ==
    Arr([i \in DOMAIN spikes |->
            IF name = "a" THEN spikes[i] * spikes[i] ELSE spikes[i] + 10])

(* The attributes a ClusterStore has before any item is registered. *)
OwnAttrs ==
    {"_model", "_spikes_per_cluster", "_store", "_items",
     "spikes_per_cluster", "register_item", "load", "update", "merge",
     "assign", "generate"}

(* The ClusterStore object as a value. *)
CS == [st |-> St, spc |-> spc, items |-> items, attrs |-> attrs]


(* hasattr that knows the installed functions only. *)
hasattr_installed_only(cs, name) == name \in DOMAIN cs.attrs

hasattr(cs, name) == name \in OwnAttrs \/ name \in DOMAIN cs.attrs


(* register_item whose functions all load the last field of the class:
   closures over the loop variable. *)
RECURSIVE RegisterFields_late_binding(_, _, _)
RegisterFields_late_binding(cs, item_cls, i) ==
    IF i > Len(ItemFields(item_cls))
    THEN Outcome([cs EXCEPT !.items = Append(@, item_cls)], "ok")
    ELSE LET name == ItemFields(item_cls)[i][1]
             location == ItemFields(item_cls)[i][2]
             last == ItemFields(item_cls)[Len(ItemFields(item_cls))][1]
             cs1 == [cs EXCEPT !.st =
                        Store_register_field(@, name, location).st]
         IN IF location \notin Locations THEN Outcome(cs, "ValueError")
            ELSE IF hasattr(cs1, name) THEN Outcome(cs1, "AssertionError")
            ELSE RegisterFields_late_binding(
                     [cs1 EXCEPT !.attrs = DictUpdate(@, name :> last)],
                     item_cls, i + 1)

(* The loop of register_item from field i on, then the append. *)
RECURSIVE RegisterFields(_, _, _)
RegisterFields(cs, item_cls, i) ==
    IF i > Len(ItemFields(item_cls))
    THEN Outcome([cs EXCEPT !.items = Append(@, item_cls)], "ok")
    ELSE LET name == ItemFields(item_cls)[i][1]
             location == ItemFields(item_cls)[i][2]
             cs1 == [cs EXCEPT !.st =
                        Store_register_field(@, name, location).st]
         IN IF location \notin Locations THEN Outcome(cs, "ValueError")
            ELSE IF hasattr(cs1, name) THEN Outcome(cs1, "AssertionError")
            ELSE RegisterFields(
                     [cs1 EXCEPT !.attrs = DictUpdate(@, name :> name)],
                     item_cls, i + 1)

ClusterStore_register_item(cs, item_cls) == RegisterFields(cs, item_cls, 1)

(* An invocation of a StoreItem method, as logged. *)
Invoked(method, item_cls, args) ==
    [method |-> method, item |-> item_cls, args |-> args]

(* The statements after one that raised are not executed. *)
Raising(st) == st.exc # "ok"

(* store_from_model of an item that stores what it computes, for each of
   its fields, without naming a location; ItemF's raises instead. *)
StoreItem_store_from_model(st, item_cls, cluster, spikes) ==
    IF Raising(st) THEN st
    ELSE LET st1 == [st EXCEPT !.log =
                        Append(@, Invoked("store_from_model", item_cls,
                                          <<cluster, spikes>>))]
         IN IF ItemRaises(item_cls) THEN [st1 EXCEPT !.exc = "RuntimeError"]
            ELSE Store_store(st1, cluster, NoLocation,
                             [name \in ItemFieldNames(item_cls) |->
                                 Compute(name, spikes)]).st

RECURSIVE StoreItem_assign_from(_, _, _, _)
StoreItem_assign_from(st, item_cls, up, i) ==
    IF i > Len(up.added) THEN st
    ELSE StoreItem_assign_from(
             StoreItem_store_from_model(
                 st, item_cls, up.added[i],
                 up.new_spikes_per_cluster[up.added[i]]),
             item_cls, up, i + 1)

StoreItem_assign(st, item_cls, up) ==
    IF Raising(st) THEN st
    ELSE StoreItem_assign_from(
             [st EXCEPT !.log = Append(@, Invoked("assign", item_cls, <<up>>))],
             item_cls, up, 1)

StoreItem_merge(st, item_cls, up) ==
    IF Raising(st) THEN st
    ELSE StoreItem_assign(
             [st EXCEPT !.log = Append(@, Invoked("merge", item_cls, <<up>>))],
             item_cls, up)

RECURSIVE ClusterStore_merge_from(_, _, _, _)
ClusterStore_merge_from(st, its, up, i) ==
    IF i > Len(its) THEN st
    ELSE ClusterStore_merge_from(StoreItem_merge(st, its[i], up),
                                 its, up, i + 1)

ClusterStore_merge(cs, up) ==
    [cs EXCEPT !.st = ClusterStore_merge_from(@, cs.items, up, 1)]

RECURSIVE ClusterStore_assign_from(_, _, _, _)
ClusterStore_assign_from(st, its, up, i) ==
    IF i > Len(its) THEN st
    ELSE ClusterStore_assign_from(StoreItem_assign(st, its[i], up),
                                  its, up, i + 1)


(* assign that runs the items from the last registered to the first. *)
ClusterStore_assign_reversed(cs, up) ==
    [cs EXCEPT !.st =
        ClusterStore_assign_from(
            @, [i \in DOMAIN cs.items |-> cs.items[Len(cs.items) + 1 - i]],
            up, 1)]

ClusterStore_assign(cs, up) ==
    [cs EXCEPT !.st = ClusterStore_assign_from(@, cs.items, up, 1)]

(* What a ClusterStore method gives its caller: the exception an item
   raised, if one did. *)
Propagated(cs) == Outcome(cs, cs.st.exc)

(* update that deletes the deleted clusters after the items have run. *)
ClusterStore_update_delete_last(cs, up) ==
    LET cs1 == IF up.description = "merge" THEN ClusterStore_merge(cs, up)
               ELSE IF up.description = "assign"
               THEN ClusterStore_assign(cs, up)
               ELSE cs
        cs2 == [cs1 EXCEPT !.st = Store_delete(@, up.deleted)]
    IN IF up.description \in {"merge", "assign"} THEN Propagated(cs2)
       ELSE Outcome(cs2, "NotImplementedError")

(* update that looks at the description before it deletes anything. *)
ClusterStore_update_check_first(cs, up) ==
    LET cs1 == [cs EXCEPT !.st = Store_delete(@, up.deleted)]
    IN IF up.description = "merge"
       THEN Propagated(ClusterStore_merge(cs1, up))
       ELSE IF up.description = "assign"
       THEN Propagated(ClusterStore_assign(cs1, up))
       ELSE Outcome(cs, "NotImplementedError")

ClusterStore_update(cs, up) ==
    LET cs1 == [cs EXCEPT !.st = Store_delete(@, up.deleted)]
    IN IF up.description = "merge"
       THEN Propagated(ClusterStore_merge(cs1, up))
       ELSE IF up.description = "assign"
       THEN Propagated(ClusterStore_assign(cs1, up))
       ELSE Outcome(cs1, "NotImplementedError")

(* The two loops of generate: item i, cluster j of the sorted clusters. *)
RECURSIVE GenerateFrom(_, _, _, _, _, _)
GenerateFrom(st, its, clusters, spikes_per_cluster, i, j) ==
    IF i > Len(its) THEN st
    ELSE IF j > Len(clusters)
    THEN GenerateFrom(st, its, clusters, spikes_per_cluster, i + 1, 1)
    ELSE GenerateFrom(
             StoreItem_store_from_model(st, its[i], clusters[j],
                                        spikes_per_cluster[clusters[j]]),
             its, clusters, spikes_per_cluster, i, j + 1)


(* generate that leaves out the clusters the store already holds. *)
ClusterStore_generate_skip_stored(cs, spikes_per_cluster) ==
    LET clusters == Sorted({c \in DOMAIN spikes_per_cluster :
                               c \notin DOMAIN cs.st.mem})
    IN [cs EXCEPT !.spc = spikes_per_cluster,
                  !.st = GenerateFrom(@, cs.items, clusters,
                                      spikes_per_cluster, 1, 1)]

ClusterStore_generate(cs, spikes_per_cluster) ==
    LET clusters == Sorted(DOMAIN spikes_per_cluster)
    IN [cs EXCEPT !.spc = spikes_per_cluster,
                  !.st = GenerateFrom(@, cs.items, clusters,
                                      spikes_per_cluster, 1, 1)]

(* np.concatenate of a list of arrays. *)
RECURSIVE concatenate(_)
concatenate(arrays) ==
    IF arrays = <<>> THEN <<>>
    ELSE Head(arrays) \o concatenate(Tail(arrays))

(* np.all(np.in1d(a, b)) *)
all_in1d(a, b) == Range(a) \subseteq Range(b)

(* _index_of: for each element of arr its position in lookup, the last
   one when lookup repeats it. *)
index_of(arr, lookup) ==
    [i \in DOMAIN arr |->
        CHOOSE p \in DOMAIN lookup :
            /\ lookup[p] = arr[i]
            /\ \A q \in DOMAIN lookup : lookup[q] = arr[i] => q <= p]

(* What ClusterStore.load does once the arrays and the spikes of the
   clusters are concatenated. *)
ClusterStore_load_indexed(arrays, spike_clusters, spikes) ==
    IF ~all_in1d(spikes, spike_clusters) THEN Raised("AssertionError")
    ELSE LET idx == index_of(spikes, spike_clusters)
         IN IF \E i \in DOMAIN idx : idx[i] > Len(arrays)
            THEN Raised("IndexError")
            ELSE Returned(Arr([i \in DOMAIN idx |-> arrays[idx[i]]]))

ClusterStore_load(cs, name, clusters, spikes) ==
    LET stored == Store_clusters(cs.st)
        loaded == [i \in DOMAIN clusters |->
                      Store_load(cs.st, clusters[i], KeysStr(name))]
    IN IF stored.tag # "ok" THEN stored
       ELSE IF ~all_in1d(clusters, stored.val) THEN Raised("AssertionError")
       ELSE IF clusters = <<>> THEN Raised("ValueError")
       ELSE IF loaded[1].tag # "ok" THEN loaded[1]
       ELSE IF \E i \in DOMAIN loaded : loaded[i].val.none
       THEN Raised("ValueError")
       ELSE IF ~(Range(clusters) \subseteq DOMAIN cs.spc)
       THEN Raised("KeyError")
       ELSE ClusterStore_load_indexed(
                concatenate([i \in DOMAIN clusters |-> loaded[i].val.arr]),
                concatenate([i \in DOMAIN clusters |-> cs.spc[clusters[i]]]),
                spikes)

(* The function register_item installs under a field's name: attrs maps
   the attribute to the field name its closure holds. *)
ClusterStore_accessor(cs, attr, cluster) ==
    Store_load(cs.st, cluster, KeysStr(cs.attrs[attr]))

-----------------------------------------------------------------------------
(* The state machine *)

Init ==
    /\ hasDisk \in BOOLEAN
    /\ mem = EmptyMap
    /\ disk = EmptyMap
    /\ dispatch = EmptyMap
    /\ spc = EmptyMap
    /\ items = <<>>
    /\ attrs = EmptyMap
    /\ call = [op |-> "init"]
    /\ ret = Returned(None)
    /\ prev = CS
    /\ calls = <<>>
    /\ generated = FALSE
    /\ steps = 0

(* The store after a call, and the bookkeeping of the call. *)
Becomes(st, c, r) ==
    /\ steps < MaxSteps
    /\ steps' = steps + 1
    /\ mem' = st.mem
    /\ disk' = st.disk
    /\ dispatch' = st.dispatch
    /\ call' = c
    /\ ret' = r
    /\ prev' = CS
    /\ calls' = st.log
    /\ generated' = \/ c.op = "ClusterStore.generate"
                    \/ c.op = "ClusterStore.update" /\ generated
    /\ UNCHANGED hasDisk

CacheUnchanged == UNCHANGED <<spc, items, attrs>>

ExcResult(o) == IF o.exc = "ok" THEN Returned(None) ELSE Raised(o.exc)

RegisterField ==
    \E name \in Fields, location \in Locations \cup {BadLocation} :
        LET o == Store_register_field(St, name, location)
        IN /\ Becomes(o.st, [op |-> "Store.register_field", name |-> name,
                             location |-> location], ExcResult(o))
           /\ CacheUnchanged

StoreStore ==
    \E cluster \in Clusters, data \in DataMaps,
       location \in Locations \cup {NoLocation, BadLocation} :
        LET o == Store_store(St, cluster, location, data)
        IN /\ Becomes(o.st, [op |-> "Store.store", cluster |-> cluster,
                             location |-> location, data |-> data],
                      ExcResult(o))
           /\ CacheUnchanged

StoreLoad ==
    \E cluster \in Clusters, keys \in KeyArgs :
        /\ Becomes(St, [op |-> "Store.load", cluster |-> cluster,
                        keys |-> keys], Store_load(St, cluster, keys))
        /\ CacheUnchanged

StoreDelete ==
    \E clusters \in ClusterLists :
        /\ Becomes(Store_delete(St, clusters),
                   [op |-> "Store.delete", clusters |-> clusters],
                   Returned(None))
        /\ CacheUnchanged

StoreClear ==
    /\ Becomes(Store_clear(St), [op |-> "Store.clear"], Returned(None))
    /\ CacheUnchanged

StoreClusters ==
    /\ Becomes(St, [op |-> "Store.clusters"], Store_clusters(St))
    /\ CacheUnchanged

(* Calls made on one tier directly, behind the Store's back. *)
MemoryStoreStore ==
    \E cluster \in Clusters, data \in DataMaps :
        /\ Becomes([St EXCEPT !.mem = MemoryStore_store(@, cluster, data)],
                   [op |-> "MemoryStore.store", cluster |-> cluster,
                    data |-> data], Returned(None))
        /\ CacheUnchanged

MemoryStoreLoad ==
    \E cluster \in Clusters, keys \in KeyArgs :
        /\ Becomes(St, [op |-> "MemoryStore.load", cluster |-> cluster,
                        keys |-> keys],
                   Returned(MemoryStore_load(mem, cluster, keys)))
        /\ CacheUnchanged

MemoryStoreDelete ==
    \E clusters \in ClusterLists :
        /\ Becomes([St EXCEPT !.mem = MemoryStore_delete(@, clusters)],
                   [op |-> "MemoryStore.delete", clusters |-> clusters],
                   Returned(None))
        /\ CacheUnchanged

DiskStoreStore ==
    /\ hasDisk
    /\ \E cluster \in Clusters, data \in DataMaps :
        /\ Becomes([St EXCEPT !.disk = DiskStore_store(@, cluster, data)],
                   [op |-> "DiskStore.store", cluster |-> cluster,
                    data |-> data], Returned(None))
        /\ CacheUnchanged

DiskStoreLoad ==
    /\ hasDisk
    /\ \E cluster \in Clusters, keys \in KeyArgs :
        /\ Becomes(St, [op |-> "DiskStore.load", cluster |-> cluster,
                        keys |-> keys],
                   Returned(DiskStore_load(disk, cluster, keys)))
        /\ CacheUnchanged

DiskStoreDelete ==
    /\ hasDisk
    /\ \E clusters \in ClusterLists :
        /\ Becomes([St EXCEPT !.disk = DiskStore_delete(@, clusters)],
                   [op |-> "DiskStore.delete", clusters |-> clusters],
                   Returned(None))
        /\ CacheUnchanged

NextStore ==
    \/ RegisterField
    \/ StoreStore
    \/ StoreLoad
    \/ StoreDelete
    \/ StoreClear
    \/ StoreClusters

NextTiers ==
    \/ MemoryStoreStore
    \/ MemoryStoreLoad
    \/ MemoryStoreDelete
    \/ DiskStoreStore
    \/ DiskStoreLoad
    \/ DiskStoreDelete

(* The ClusterStore after a call, and the bookkeeping of the call. *)
CacheBecomes(cs, c, r) ==
    /\ Becomes(cs.st, c, r)
    /\ spc' = cs.spc
    /\ items' = cs.items
    /\ attrs' = cs.attrs

(* The spikes given for a cluster. *)
SpikeLists == {<<1>>, <<2, 3>>}

(* The spikes_per_cluster dictionaries given to generate: cluster 7 is
   generated and never part of a later change. *)
SpikesPerCluster ==
    UNION {[S -> SpikeLists] : S \in SUBSET (Clusters \cup {7})}

(* The clustering changes given to update. *)
Changes ==
    UNION {{[description |-> d, deleted |-> del, added |-> add,
             new_spikes_per_cluster |-> n] :
                d \in {"merge", "assign", "split"},
                del \in {<<>>, <<3>>, <<3, 100000>>},
                n \in [Range(add) -> SpikeLists]} :
           add \in {<<>>, <<3>>, <<100000>>}}

RegisterItem ==
    \E item_cls \in ItemClasses :
        LET o == ClusterStore_register_item(CS, item_cls)
        IN CacheBecomes(o.st, [op |-> "ClusterStore.register_item",
                               item_cls |-> item_cls], ExcResult(o))

Update ==
    \E up \in Changes :
        LET o == ClusterStore_update(CS, up)
        IN CacheBecomes(o.st, [op |-> "ClusterStore.update", up |-> up],
                        ExcResult(o))

Generate ==
    \E spikes_per_cluster \in SpikesPerCluster :
        LET o == Propagated(ClusterStore_generate(CS, spikes_per_cluster))
        IN CacheBecomes(o.st, [op |-> "ClusterStore.generate",
                               spikes_per_cluster |-> spikes_per_cluster],
                        ExcResult(o))

NextCache ==
    \/ RegisterItem
    \/ Update
    \/ Generate

(* merge and assign called directly: neither reads the deleted clusters. *)
Merge ==
    \E up \in {c \in Changes : c.description = "merge" /\ c.deleted = <<>>} :
        LET o == Propagated(ClusterStore_merge(CS, up))
        IN CacheBecomes(o.st, [op |-> "ClusterStore.merge", up |-> up],
                        ExcResult(o))

Assign ==
    \E up \in {c \in Changes : c.description = "assign" /\ c.deleted = <<>>} :
        LET o == Propagated(ClusterStore_assign(CS, up))
        IN CacheBecomes(o.st, [op |-> "ClusterStore.assign", up |-> up],
                        ExcResult(o))

(* The clusters and the spikes asked of ClusterStore.load. *)
LoadClusters == {<<3>>, <<100000>>, <<3, 100000>>, <<100000, 3>>}
LoadSpikes == {<<1>>, <<3, 2>>, <<3, 1>>}

Load ==
    \E name \in Fields, clusters \in LoadClusters, spikes \in LoadSpikes :
        CacheBecomes(CS, [op |-> "ClusterStore.load", name |-> name,
                          clusters |-> clusters, spikes |-> spikes],
                     ClusterStore_load(CS, name, clusters, spikes))

Accessor ==
    \E attr \in DOMAIN attrs, cluster \in Clusters :
        CacheBecomes(CS, [op |-> "ClusterStore.accessor", attr |-> attr,
                          cluster |-> cluster],
                     ClusterStore_accessor(CS, attr, cluster))

NextItems ==
    \/ Merge
    \/ Assign
    \/ Accessor

(* The Store used through its own methods only. *)
SpecStore == Init /\ [][NextStore]_vars

(* The Store and its two tiers, each tier also used directly. *)
SpecTiers == Init /\ [][NextStore \/ NextTiers]_vars

(* The ClusterStore built and changed through register_item, update and
   generate. *)
SpecCache == Init /\ [][NextCache]_vars

(* The ClusterStore with items registered, the items run by merge and
   assign and their fields read through the installed functions. *)
SpecItems == Init /\ [][RegisterItem \/ NextItems]_vars

(* The ClusterStore used through all its methods. *)
SpecClusterStore == Init /\ [][NextCache \/ NextItems \/ Load]_vars

Next == NextStore \/ NextTiers \/ NextCache \/ NextItems \/ Load

Spec == Init /\ [][Next]_vars

-----------------------------------------------------------------------------
(* Properties *)

(* The cluster ids each tier lists, as sets. *)
MemoryIds == DOMAIN mem
DiskIds == {ParseInt(file) : file \in DOMAIN disk}

(* C1: with a disk store and both tiers empty at first, whatever sequence of
   register_field, store, delete and clear is made on the Store, the memory
   store and the disk store list the same clusters and Store.clusters does
   not raise; a store call creates the cluster in both tiers even when no
   field of it goes to one of them. *)
C1_TiersAgree ==
    hasDisk =>
        /\ MemoryStore_clusters(mem) = DiskStore_clusters(disk)
        /\ MemoryIds = DiskIds
        /\ Store_clusters(St).tag = "ok"
        /\ (call.op = "Store.store" /\ ret.tag = "ok") =>
               /\ call.cluster \in MemoryIds
               /\ call.cluster \in DiskIds

(* A store call whose only field went to memory has created the cluster
   file, which holds nothing. *)
C1_Witness ==
    /\ hasDisk
    /\ call.op = "Store.store"
    /\ ret.tag = "ok"
    /\ call.data = [a |-> Arr(<<1>>)]
    /\ "a" \in DOMAIN dispatch
    /\ dispatch["a"] = "memory"
    /\ call.cluster \notin DOMAIN prev.st.mem
    /\ mem[call.cluster] = [a |-> Arr(<<1>>)]
    /\ DiskStore_cluster_file_exists(disk, call.cluster)
    /\ disk[DiskStore_cluster_path(call.cluster)] = EmptyMap

(* C2: Store.clusters changes nothing; without a disk store it returns the
   memory store's sorted clusters, with one it raises RuntimeError when the
   two tiers list different clusters and returns the common sorted list
   otherwise. *)
C2_Clusters ==
    call.op = "Store.clusters" =>
        /\ CS = prev
        /\ IF ~hasDisk THEN ret = Returned(Sorted(MemoryIds))
           ELSE IF MemoryIds # DiskIds THEN ret = Raised("RuntimeError")
           ELSE ret = Returned(Sorted(MemoryIds))

(* Store.clusters has raised on tiers that list as many clusters as each
   other, but not the same ones. *)
C2_Witness ==
    /\ hasDisk
    /\ call.op = "Store.clusters"
    /\ ret = Raised("RuntimeError")
    /\ MemoryIds = {3}
    /\ DiskIds = {100000}

(* A field is routed when the dispatch table sends it to a tier the Store
   has. *)
Routed(key) ==
    /\ key \in DOMAIN dispatch
    /\ dispatch[key] = "disk" => hasDisk

(* The file of a cluster holds a value for a key. *)
OnDisk(cluster, key) ==
    /\ DiskStore_cluster_file_exists(disk, cluster)
    /\ key \in DOMAIN disk[DiskStore_cluster_path(cluster)]

(* C3, as claimed: after store(cluster, **data), load(cluster) returns a
   dictionary that has every key of data with the value just stored. *)
C3_RoundTrip_AsClaimed ==
    (call.op = "Store.store" /\ call.location = NoLocation) =>
        LET r == Store_load(St, call.cluster, KeysNone)
        IN /\ r.tag = "ok"
           /\ \A key \in DOMAIN call.data :
                  /\ key \in DOMAIN r.val
                  /\ r.val[key] = call.data[key]

(* C3, amended: after a store call that returned, load(cluster) has every
   key of data that is routed; the key has the value just stored, except
   that a key routed to memory whose cluster file also holds a value for it
   has the file's value. *)
C3_RoundTrip ==
    (call.op = "Store.store" /\ ret.tag = "ok") =>
        LET r == Store_load(St, call.cluster, KeysNone)
        IN /\ r.tag = "ok"
           /\ \A key \in DOMAIN call.data :
                  Routed(key) =>
                      /\ key \in DOMAIN r.val
                      /\ r.val[key] =
                             IF dispatch[key] = "memory" /\ hasDisk
                                /\ OnDisk(call.cluster, key)
                             THEN disk[DiskStore_cluster_path(call.cluster)][key]
                             ELSE call.data[key]

(* A store call of two fields, one routed to each tier, by the dispatch
   table alone; load returns both as stored. *)
C3_Witness ==
    /\ call.op = "Store.store"
    /\ ret.tag = "ok"
    /\ call.location = NoLocation
    /\ call.data = [a |-> Arr(<<4>>), b |-> Arr(<<1>>)]
    /\ Routed("a") /\ Routed("b")
    /\ dispatch["a"] # dispatch["b"]
    /\ Store_load(St, call.cluster, KeysNone) = Returned(call.data)

(* C4, as claimed: once the dispatch table has an entry for a field, no
   call changes the entry to another location. *)
C4_LocationFixed ==
    \A key \in DOMAIN prev.st.dispatch :
        /\ key \in DOMAIN dispatch
        /\ dispatch[key] = prev.st.dispatch[key]

(* The cluster is in neither tier. *)
Absent(cluster) ==
    /\ cluster \notin DOMAIN mem
    /\ ~DiskStore_cluster_file_exists(disk, cluster)

(* What load returns for a cluster that holds nothing: {} for None, None
   for a string, a dictionary of None for a list. *)
NothingFor(keys) ==
    IF keys.kind = "none" THEN EmptyMap
    ELSE IF keys.kind = "str" THEN None
    ELSE [key \in Range(keys.keys) |-> None]

(* C5, as claimed: load of a cluster that is in neither tier never raises
   and returns {} for None, None for a string and a dictionary of None over
   all the keys of a list, from the Store and from each tier. *)
C5_LoadAbsent_AsClaimed ==
    (call.op \in {"Store.load", "MemoryStore.load", "DiskStore.load"}
        /\ Absent(call.cluster)) => ret = Returned(NothingFor(call.keys))

(* C5, amended: each tier's load of such a cluster returns {}, None or
   the dictionary of None over the list. Store.load returns {} for None;
   for a list, the dictionary of None over the routed keys of the list;
   for a string that is routed, None; it raises KeyError for a string with
   no entry in the dispatch table and AttributeError for a string
   registered on disk when there is no disk store. *)
C5_LoadAbsent ==
    /\ (call.op \in {"MemoryStore.load", "DiskStore.load"}
           /\ Absent(call.cluster)) => ret = Returned(NothingFor(call.keys))
    /\ (call.op = "Store.load" /\ Absent(call.cluster)) =>
           /\ CS = prev
           /\ call.keys.kind = "none" => ret = Returned(EmptyMap)
           /\ call.keys.kind = "list" =>
                  ret = Returned([key \in {k \in Range(call.keys.keys) :
                                              Routed(k)} |-> None])
           /\ call.keys.kind = "str" =>
                  ret = IF Routed(call.keys.key) THEN Returned(None)
                        ELSE IF call.keys.key \notin DOMAIN dispatch
                        THEN Raised("KeyError")
                        ELSE Raised("AttributeError")

(* Store.load of a list of two keys, one routed and one not, for a cluster
   that is in neither tier while the other cluster is stored. *)
C5_Witness ==
    /\ call.op = "Store.load"
    /\ Absent(call.cluster)
    /\ MemoryIds # {}
    /\ call.keys = KeysList(<<"a", "b">>)
    /\ Routed("b")
    /\ ~Routed("a")
    /\ ret = Returned([b |-> None])

(* Every value of a dictionary is None. *)
AllNone(d) == \A key \in DOMAIN d : d[key] = None

ListArgs == {keys \in KeyArgs : keys.kind = "list"}

(* C6: after delete([cluster]), whatever was stored for the cluster,
   load(cluster) returns {}, load(cluster, key) returns None for every
   registered key, load(cluster, list) returns only None values and the
   cluster is no longer listed: for the memory store alone, for the disk
   store alone and for the Store over both. *)
C6_DeleteThenLoad ==
    /\ call.op = "MemoryStore.delete" =>
           \A c \in Range(call.clusters) :
               /\ MemoryStore_load(mem, c, KeysNone) = EmptyMap
               /\ \A key \in Fields :
                      MemoryStore_load(mem, c, KeysStr(key)) = None
               /\ \A keys \in ListArgs :
                      MemoryStore_load(mem, c, keys) = NothingFor(keys)
               /\ c \notin Range(MemoryStore_clusters(mem))
    /\ call.op = "DiskStore.delete" =>
           \A c \in Range(call.clusters) :
               /\ DiskStore_load(disk, c, KeysNone) = EmptyMap
               /\ \A key \in Fields :
                      DiskStore_load(disk, c, KeysStr(key)) = None
               /\ \A keys \in ListArgs :
                      DiskStore_load(disk, c, keys) = NothingFor(keys)
               /\ c \notin Range(DiskStore_clusters(disk))
    /\ call.op = "Store.delete" =>
           \A c \in Range(call.clusters) :
               /\ Store_load(St, c, KeysNone) = Returned(EmptyMap)
               /\ \A key \in DOMAIN dispatch :
                      Routed(key) =>
                          Store_load(St, c, KeysStr(key)) = Returned(None)
               /\ \A keys \in ListArgs :
                      /\ Store_load(St, c, keys).tag = "ok"
                      /\ AllNone(Store_load(St, c, keys).val)
               /\ c \notin MemoryIds
               /\ c \notin DiskIds
               /\ Store_clusters(St).tag = "ok" =>
                      c \notin Range(Store_clusters(St).val)

(* Store.delete, with a disk store, of a cluster that held a value in each
   tier, both fields being registered. *)
C6_Witness ==
    /\ hasDisk
    /\ call.op = "Store.delete"
    /\ \E c \in Range(call.clusters) :
           /\ c \in DOMAIN prev.st.mem
           /\ prev.st.mem[c] # EmptyMap
           /\ DiskStore_cluster_file_exists(prev.st.disk, c)
           /\ prev.st.disk[DiskStore_cluster_path(c)] # EmptyMap
    /\ DOMAIN dispatch = Fields

(* What the tier of a location holds for a key of a cluster. *)
Held(location, cluster, key) ==
    IF location = "memory"
    THEN DictGet(DictGet(mem, cluster, EmptyMap), key, None)
    ELSE IF OnDisk(cluster, key)
    THEN disk[DiskStore_cluster_path(cluster)][key]
    ELSE None

(* C7, as claimed: Store.load(cluster, key) with a string key changes
   nothing; it raises KeyError when the dispatch table has no entry for the
   key and otherwise returns what the tier the entry names holds for the
   key of the cluster. *)
C7_ScalarLoad_AsClaimed ==
    (call.op = "Store.load" /\ call.keys.kind = "str") =>
        /\ CS = prev
        /\ ret = IF call.keys.key \notin DOMAIN dispatch
                 THEN Raised("KeyError")
                 ELSE Returned(Held(dispatch[call.keys.key], call.cluster,
                                    call.keys.key))

(* C8, as claimed: without a disk store, Store.load does not raise for a
   field registered on disk: a string key returns None, and None or a list
   returns what the memory store gives, the disk part being empty. *)
C8_LoadWithoutDisk_AsClaimed ==
    (~hasDisk /\ call.op = "Store.load") =>
        IF call.keys.kind = "str"
        THEN (/\ call.keys.key \in DOMAIN dispatch
              /\ dispatch[call.keys.key] = "disk") => ret = Returned(None)
        ELSE ret = Returned(MemoryStore_load(
                                mem, call.cluster,
                                Store_filter_keys(St, call.keys, "memory")))

(* Every registered item stores what it computes. *)
ItemsStore == \A i \in DOMAIN items : ~ItemRaises(items[i])

(* The fields of the registered items. *)
ItemsFieldNames == UNION {ItemFieldNames(items[i]) : i \in DOMAIN items}

(* What the registered items compute for a cluster of a change, for the
   fields the dispatch table sends to a location. *)
Fresh(up, cluster, location) ==
    [name \in {f \in ItemsFieldNames :
                  f \in DOMAIN dispatch /\ dispatch[f] = location} |->
        Compute(name, up.new_spikes_per_cluster[cluster])]

(* Each tier holds for the cluster what it held when the call was made. *)
Same(cluster) ==
    LET path == DiskStore_cluster_path(cluster)
    IN /\ (cluster \in DOMAIN mem) = (cluster \in DOMAIN prev.st.mem)
       /\ cluster \in DOMAIN mem => mem[cluster] = prev.st.mem[cluster]
       /\ (path \in DOMAIN disk) = (path \in DOMAIN prev.st.disk)
       /\ path \in DOMAIN disk => disk[path] = prev.st.disk[path]

(* What a tier held for the cluster when the call was made, nothing for a
   cluster the call deletes. *)
Kept(d, key, deleted) ==
    IF key \in DOMAIN d /\ ~deleted THEN d[key] ELSE EmptyMap

AllClusters == Clusters \cup {7}

(* C9: update with description merge or assign, the registered items
   storing what they compute, deletes the deleted clusters from both tiers
   and then runs the items: a deleted cluster that is not
   added is in neither tier; with an item registered, an added cluster is
   in the store with the values the items compute from its new spikes (on
   top of nothing when it was also deleted), and each routed field of an
   item loads as that value; a cluster neither deleted nor added holds
   what it held; nothing else changes. *)
C9_Update ==
    (call.op = "ClusterStore.update"
        /\ call.up.description \in {"merge", "assign"}
        /\ ItemsStore) =>
        LET up == call.up
            del == Range(up.deleted)
            add == Range(up.added)
        IN /\ ret = Returned(None)
           /\ \A c \in del \ add : Absent(c)
           /\ \A c \in add :
                  IF items = <<>>
                  THEN IF c \in del THEN Absent(c) ELSE Same(c)
                  ELSE /\ c \in MemoryIds
                       /\ mem[c] = DictUpdate(Kept(prev.st.mem, c, c \in del),
                                              Fresh(up, c, "memory"))
                       /\ hasDisk =>
                              /\ c \in DiskIds
                              /\ disk[DiskStore_cluster_path(c)] =
                                     DictUpdate(
                                         Kept(prev.st.disk,
                                              DiskStore_cluster_path(c),
                                              c \in del),
                                         Fresh(up, c, "disk"))
                       /\ \A name \in ItemsFieldNames :
                              Routed(name) =>
                                  Store_load(St, c, KeysStr(name)) =
                                      Returned(Compute(
                                          name, up.new_spikes_per_cluster[c]))
           /\ \A c \in AllClusters \ (del \cup add) : Same(c)
           /\ dispatch = prev.st.dispatch
           /\ <<spc, items, attrs>> = <<prev.spc, prev.items, prev.attrs>>

(* An assign that deletes a stored cluster and adds another one, with an
   item registered and a third cluster stored and left alone. *)
C9_Witness ==
    /\ call.op = "ClusterStore.update"
    /\ call.up.description = "assign"
    /\ call.up.deleted = <<3>>
    /\ call.up.added = <<100000>>
    /\ items # <<>>
    /\ 3 \in DOMAIN prev.st.mem
    /\ 100000 \notin DOMAIN prev.st.mem
    /\ 100000 \in MemoryIds
    /\ 7 \in MemoryIds
    /\ \E name \in ItemsFieldNames :
           /\ Routed(name)
           /\ Store_load(St, 7, KeysStr(name)).val # None
           /\ Store_load(St, 100000, KeysStr(name)).val # None

(* C10: update with another description raises NotImplementedError after
   it has deleted the deleted clusters from both tiers and without running
   any item: every other cluster holds what it held and nothing else
   changes. *)
C10_UnsupportedChange ==
    (call.op = "ClusterStore.update"
        /\ call.up.description \notin {"merge", "assign"}) =>
        /\ ret = Raised("NotImplementedError")
        /\ \A c \in Range(call.up.deleted) : Absent(c)
        /\ \A c \in AllClusters \ Range(call.up.deleted) : Same(c)
        /\ dispatch = prev.st.dispatch
        /\ <<spc, items, attrs>> = <<prev.spc, prev.items, prev.attrs>>

(* An update of unknown description, with an item registered, that deletes
   a stored cluster and names a cluster to add, which is not stored. *)
C10_Witness ==
    /\ call.op = "ClusterStore.update"
    /\ call.up.description = "split"
    /\ ret = Raised("NotImplementedError")
    /\ items # <<>>
    /\ call.up.deleted = <<3>>
    /\ 3 \in DOMAIN prev.st.mem
    /\ prev.st.mem[3] # EmptyMap
    /\ call.up.added = <<100000>>
    /\ Absent(100000)

(* The spikes of a cluster in the spikes_per_cluster dictionary, none for a
   cluster it has no entry for. *)
Members(cluster) == IF cluster \in DOMAIN spc THEN spc[cluster] ELSE <<>>

(* The store holds an array for the field of the cluster. *)
HoldsArray(cluster, name) ==
    LET r == Store_load(St, cluster, KeysStr(name))
    IN r.tag = "ok" /\ ~r.val.none

FieldArray(cluster, name) == Store_load(St, cluster, KeysStr(name)).val.arr

(* C11: ClusterStore.load(name, clusters, spikes), the store holding an
   array of the field for each of the clusters, changes nothing; when each
   of the spikes is among the spikes of one of the clusters it returns one
   value per spike, in the order of the spikes, each the value at the
   spike's position in the field array of its cluster, the same for the
   clusters in any order; otherwise it raises AssertionError. *)
C11_Load_AsClaimed ==
    (call.op = "ClusterStore.load"
        /\ \A c \in Range(call.clusters) : HoldsArray(c, call.name)) =>
        /\ CS = prev
        /\ IF \A i \in DOMAIN call.spikes :
                  \E c \in Range(call.clusters) :
                      call.spikes[i] \in Range(Members(c))
           THEN /\ ret.tag = "ok"
                /\ Len(ret.val.arr) = Len(call.spikes)
                /\ \A i \in DOMAIN call.spikes :
                       \E c \in Range(call.clusters) :
                           \E p \in DOMAIN Members(c) :
                               /\ Members(c)[p] = call.spikes[i]
                               /\ p \in DOMAIN FieldArray(c, call.name)
                               /\ ret.val.arr[i] = FieldArray(c, call.name)[p]
                /\ \A other \in LoadClusters :
                       Range(other) = Range(call.clusters) =>
                           ClusterStore_load(CS, call.name, other,
                                             call.spikes) = ret
           ELSE ret = Raised("AssertionError")

(* C11, with an entry in spikes_per_cluster for each of the clusters that
   fits its field array: the same statement holds. *)
C11_LoadCoherent ==
    (call.op = "ClusterStore.load"
        /\ \A c \in Range(call.clusters) :
               /\ HoldsArray(c, call.name)
               /\ c \in DOMAIN spc
               /\ Len(spc[c]) = Len(FieldArray(c, call.name))) =>
        C11_Load_AsClaimed

(* C20: once generate was called, and after any updates that followed it,
   the registered items storing what they compute, every cluster of the
   store has an entry in spikes_per_cluster, and the arrays the store holds
   for it are those of the spikes of that entry. *)
C20_Coherent_AsClaimed ==
    (generated /\ ItemsStore) =>
        /\ Store_clusters(St).tag = "ok"
        /\ \A c \in Range(Store_clusters(St).val) :
               /\ c \in DOMAIN spc
               /\ \A name \in ItemsFieldNames :
                      HoldsArray(c, name) =>
                          FieldArray(c, name) = Compute(name, spc[c]).arr

(* The place of an item in the list of registered items. *)
Pos(item_cls) == CHOOSE i \in DOMAIN items : items[i] = item_cls

(* C12: generate(spikes_per_cluster), the registered items storing what
   they compute, makes the argument the spikes_per_cluster dictionary and
   calls store_from_model once for every registered item and every cluster
   of the argument, with the spikes of the cluster, the items in the order
   of their registration and for each item the clusters in ascending
   order, whatever the store already holds; it calls nothing else. *)
C12_Generate ==
    (call.op = "ClusterStore.generate" /\ ItemsStore) =>
        /\ ret = Returned(None)
        /\ spc = call.spikes_per_cluster
        /\ items = prev.items
        /\ \A i \in DOMAIN items, c \in DOMAIN spc :
               Cardinality({k \in DOMAIN calls :
                               calls[k] = Invoked("store_from_model",
                                                  items[i],
                                                  <<c, spc[c]>>)}) = 1
        /\ Len(calls) = Len(items) * Cardinality(DOMAIN spc)
        /\ \A k \in DOMAIN calls, l \in DOMAIN calls :
               k < l =>
                   \/ Pos(calls[k].item) < Pos(calls[l].item)
                   \/ /\ calls[k].item = calls[l].item
                      /\ calls[k].args[1] < calls[l].args[1]

(* generate for two clusters, given in a dictionary, with two items
   registered. *)
C12_Witness ==
    /\ call.op = "ClusterStore.generate"
    /\ Len(items) = 2
    /\ ItemsStore
    /\ DOMAIN call.spikes_per_cluster = {3, 100000}
    /\ Len(calls) = 4

(* A field name of the item class is an attribute of the ClusterStore when
   its turn comes: an attribute the object had when the call was made, or
   the name of an earlier field of the class. *)
Collides(item_cls) ==
    \E i \in DOMAIN ItemFields(item_cls) :
        LET name == ItemFields(item_cls)[i][1]
        IN \/ name \in OwnAttrs
           \/ name \in DOMAIN prev.attrs
           \/ \E j \in 1..(i - 1) : ItemFields(item_cls)[j][1] = name

(* C13: register_item raises AssertionError exactly when a field name of
   the item class is already an attribute of the ClusterStore (installed
   for an earlier item or for the same class, repeated in the class's own
   fields, or the name of a method); the item is then not added to the
   list of items, and only items of that list are ever invoked. *)
C13_DuplicateAccessor ==
    /\ call.op = "ClusterStore.register_item" =>
           IF Collides(call.item_cls)
           THEN ret = Raised("AssertionError") /\ items = prev.items
           ELSE /\ ret = Returned(None)
                /\ items = Append(prev.items, call.item_cls)
    /\ call.op # "ClusterStore.register_item" => items = prev.items
    /\ \A k \in DOMAIN calls : calls[k].item \in Range(items)

(* An item class refused for a field that an item registered before it
   has installed. *)
C13_Witness ==
    /\ call.op = "ClusterStore.register_item"
    /\ call.item_cls = "ItemAB"
    /\ prev.items = <<"ItemA">>
    /\ "a" \in DOMAIN prev.attrs
    /\ ret = Raised("AssertionError")

(* C14: the function register_item installs under a field name returns,
   for a cluster, what Store.load(cluster, name) returns for that very
   name when the function is called, for every field of the item class. *)
C14_AccessorBinding ==
    /\ (call.op = "ClusterStore.register_item" /\ ret.tag = "ok") =>
           \A name \in ItemFieldNames(call.item_cls) :
               name \in DOMAIN attrs /\ attrs[name] = name
    /\ call.op = "ClusterStore.accessor" =>
           /\ ret = Store_load(St, call.cluster, KeysStr(call.attr))
           /\ CS = prev

(* The function of the first of the two fields of ItemAB called for a
   cluster for which the store holds another array for the last field. *)
C14_Witness ==
    /\ call.op = "ClusterStore.accessor"
    /\ call.attr = "a"
    /\ items = <<"ItemAB">>
    /\ HoldsArray(call.cluster, "a")
    /\ HoldsArray(call.cluster, "b")
    /\ FieldArray(call.cluster, "a") # FieldArray(call.cluster, "b")
    /\ ret = Returned(Arr(FieldArray(call.cluster, "a")))

(* The registered items whose method raises for a change: those whose
   store_from_model raises, when the change adds a cluster. *)
Failing(up) ==
    {i \in DOMAIN items : ItemRaises(items[i]) /\ up.added # <<>>}

(* The last item a loop over the items reaches: the first one that
   raises, if any. *)
LastReached(up) ==
    IF Failing(up) = {} THEN Len(items)
    ELSE CHOOSE i \in Failing(up) : \A j \in Failing(up) : i <= j

(* C15: ClusterStore.merge(up) and ClusterStore.assign(up) call the method
   of the same name of each registered item once, in the order of
   registration, up to the first item whose method raises; that exception
   reaches the caller, no later item is called, and what the earlier items
   stored for the added clusters is in the store. *)
C15_ItemsInOrder ==
    call.op \in {"ClusterStore.merge", "ClusterStore.assign"} =>
        LET up == call.up
            method == IF call.op = "ClusterStore.merge" THEN "merge"
                      ELSE "assign"
            invoked == SelectSeq(calls, LAMBDA e : e.method = method)
        IN /\ invoked = [i \in 1..LastReached(up) |->
                            Invoked(method, items[i], <<up>>)]
           /\ \A k \in DOMAIN calls : calls[k].item \in
                  {items[i] : i \in 1..LastReached(up)}
           /\ ret = IF Failing(up) = {} THEN Returned(None)
                    ELSE Raised("RuntimeError")
           /\ \A i \in 1..LastReached(up) :
                  \A c \in Range(up.added), name \in ItemFieldNames(items[i]) :
                      (~ItemRaises(items[i]) /\ Routed(name)) =>
                          Store_load(St, c, KeysStr(name)) =
                              Returned(Compute(name,
                                               up.new_spikes_per_cluster[c]))
           /\ dispatch = prev.st.dispatch
           /\ <<spc, items, attrs>> = <<prev.spc, prev.items, prev.attrs>>

(* assign with an item that stores registered before one that raises:
   both are called, the exception is raised and the store holds what the
   first one stored. *)
C15_Witness ==
    /\ call.op = "ClusterStore.assign"
    /\ items = <<"ItemA", "ItemF">>
    /\ call.up.added = <<3>>
    /\ Len(calls) = 4
    /\ ret = Raised("RuntimeError")
    /\ HoldsArray(3, "a")
    /\ 3 \notin DOMAIN prev.st.mem

(* Both tiers hold a value for the key of the cluster. *)
BothHold(cluster, key) ==
    /\ cluster \in DOMAIN mem
    /\ key \in DOMAIN mem[cluster]
    /\ hasDisk
    /\ OnDisk(cluster, key)

(* The keys a load call asks for: all of them for None. *)
Asked(keys, key) == keys.kind = "list" => key \in Range(keys.keys)

(* C16, as claimed: Store.load(cluster, keys) with keys None or a list
   returns, for every key asked for that both tiers hold for the cluster,
   the value the disk store holds. *)
C16_DiskWins_AsClaimed ==
    (call.op = "Store.load" /\ call.keys.kind # "str") =>
        \A key \in Fields :
            (BothHold(call.cluster, key) /\ Asked(call.keys, key)) =>
                /\ ret.tag = "ok"
                /\ key \in DOMAIN ret.val
                /\ ret.val[key] = Held("disk", call.cluster, key)

(* C16: Store.load(cluster, keys) returns, for a key that both tiers hold
   for the cluster, the value the disk store holds when keys is None, and
   the value held by the tier the dispatch table now sends the key to
   when keys is a list that has the key. *)
C16_DiskWins ==
    (call.op = "Store.load" /\ call.keys.kind # "str") =>
        \A key \in Fields :
            (BothHold(call.cluster, key) /\ Asked(call.keys, key)) =>
                /\ ret.tag = "ok"
                /\ key \in DOMAIN ret.val
                /\ key \in DOMAIN dispatch
                /\ ret.val[key] =
                       Held(IF call.keys.kind = "list" THEN dispatch[key]
                            ELSE "disk",
                            call.cluster, key)

(* A list load of a key that both tiers hold with different values and
   that is now registered in memory: the memory value is returned. *)
C16_Witness ==
    /\ call.op = "Store.load"
    /\ call.keys.kind = "list"
    /\ \E key \in Range(call.keys.keys) :
           /\ BothHold(call.cluster, key)
           /\ dispatch[key] = "memory"
           /\ Held("memory", call.cluster, key) #
                  Held("disk", call.cluster, key)
           /\ ret.val[key] = Held("memory", call.cluster, key)

(* C17: register_field and store with a location that is neither 'memory'
   nor 'disk' (nor, for store, None) raise ValueError and change nothing:
   the dispatch table and both tiers are as they were. *)
C17_InvalidLocation ==
    (call.op \in {"Store.register_field", "Store.store"}
        /\ call.location = BadLocation) =>
        /\ ret = Raised("ValueError")
        /\ CS = prev

(* store with such a location, of data with a registered field, for a
   Store that holds something. *)
C17_Witness ==
    /\ call.op = "Store.store"
    /\ call.location = BadLocation
    /\ \E key \in DOMAIN call.data : Routed(key)
    /\ mem # EmptyMap
    /\ ret = Raised("ValueError")

(* What the tier of a location holds for a key of a cluster in a Store
   value, None for nothing. *)
HeldIn(st, location, cluster, key) ==
    IF location = "memory"
    THEN DictGet(DictGet(st.mem, cluster, EmptyMap), key, None)
    ELSE DictGet(DictGet(st.disk, DiskStore_cluster_path(cluster), EmptyMap),
                 key, None)

(* The tier of a location has a record for the cluster in a Store value. *)
HasRecord(st, location, cluster) ==
    IF location = "memory" THEN cluster \in DOMAIN st.mem
    ELSE DiskStore_cluster_path(cluster) \in DOMAIN st.disk

(* The tiers a call works on. *)
TiersOf(op) ==
    IF op \in {"MemoryStore.store", "MemoryStore.delete"} THEN {"memory"}
    ELSE IF op \in {"DiskStore.store", "DiskStore.delete"} THEN {"disk"}
    ELSE IF hasDisk THEN Locations
    ELSE {"memory"}

(* C18: store(cluster, **data), on the Store or on a tier, leaves in both
   tiers every value other than those of the fields of data for that
   cluster, and the records of the other clusters, and, in the dispatch
   table, the entries of the other fields; delete(clusters) leaves a tier
   it works on without a record for each of the clusters and with the
   records of all other clusters as they were, the dispatch table as it
   was, changes nothing when none of the clusters has a record, and done
   again changes nothing. *)
C18_Frame ==
    /\ call.op \in {"Store.store", "MemoryStore.store", "DiskStore.store"} =>
           /\ \A location \in Locations, c \in AllClusters :
                  /\ \A key \in Fields :
                         (c # call.cluster \/ key \notin DOMAIN call.data) =>
                             HeldIn(St, location, c, key) =
                                 HeldIn(prev.st, location, c, key)
                  /\ (c # call.cluster \/ location \notin TiersOf(call.op)) =>
                         HasRecord(St, location, c) =
                             HasRecord(prev.st, location, c)
           /\ \A key \in Fields \ DOMAIN call.data :
                  /\ (key \in DOMAIN dispatch) = (key \in DOMAIN prev.st.dispatch)
                  /\ key \in DOMAIN dispatch =>
                         dispatch[key] = prev.st.dispatch[key]
    /\ call.op \in {"Store.delete", "MemoryStore.delete", "DiskStore.delete"} =>
           /\ dispatch = prev.st.dispatch
           /\ \A location \in Locations, c \in AllClusters :
                  IF c \in Range(call.clusters) /\ location \in TiersOf(call.op)
                  THEN ~HasRecord(St, location, c)
                  ELSE /\ HasRecord(St, location, c) =
                              HasRecord(prev.st, location, c)
                       /\ \A key \in Fields :
                              HeldIn(St, location, c, key) =
                                  HeldIn(prev.st, location, c, key)
           /\ (\A location \in TiersOf(call.op), c \in Range(call.clusters) :
                   ~HasRecord(prev.st, location, c)) => St = prev.st
           /\ call.op = "Store.delete" => Store_delete(St, call.clusters) = St
           /\ call.op = "MemoryStore.delete" =>
                  MemoryStore_delete(mem, call.clusters) = mem
           /\ call.op = "DiskStore.delete" =>
                  DiskStore_delete(disk, call.clusters) = disk

(* store of one field for a cluster that holds a value for the other
   field, another cluster being stored too. *)
C18_Witness ==
    /\ call.op = "Store.store"
    /\ DOMAIN call.data = {"b"}
    /\ ret = Returned(None)
    /\ HeldIn(prev.st, "memory", call.cluster, "a") # None
    /\ HeldIn(St, "memory", call.cluster, "b") = call.data["b"]
    /\ HeldIn(prev.st, "memory", call.cluster, "b") # call.data["b"]
    /\ \E c \in Clusters \ {call.cluster} : HasRecord(prev.st, "memory", c)

(* C19: store(cluster, **data) without a location returns normally, leaves
   the dispatch table as it is, writes no field the table has no entry
   for to either tier, and creates the record of the cluster in each tier
   the Store has, so that the cluster is among Store.clusters, even when
   it writes no field; with location 'memory' or 'disk' every field of
   data is registered in the location and, when the Store has that tier,
   the tier holds the value given for it. *)
C19_Unregistered ==
    /\ (call.op = "Store.store" /\ call.location = NoLocation) =>
           /\ ret = Returned(None)
           /\ dispatch = prev.st.dispatch
           /\ \A key \in DOMAIN call.data \ DOMAIN dispatch :
                  \A location \in Locations :
                      HeldIn(St, location, call.cluster, key) =
                          HeldIn(prev.st, location, call.cluster, key)
           /\ \A location \in TiersOf(call.op) :
                  HasRecord(St, location, call.cluster)
           /\ Store_clusters(St).tag = "ok"
           /\ call.cluster \in Range(Store_clusters(St).val)
    /\ (call.op = "Store.store" /\ call.location \in Locations) =>
           /\ ret = Returned(None)
           /\ \A key \in DOMAIN call.data :
                  /\ key \in DOMAIN dispatch
                  /\ dispatch[key] = call.location
                  /\ call.location \in TiersOf(call.op) =>
                         HeldIn(St, call.location, call.cluster, key) =
                             call.data[key]

(* store without a location, for a cluster the Store does not hold, of
   fields none of which is registered: the record is created and holds
   nothing. *)
C19_Witness ==
    /\ call.op = "Store.store"
    /\ call.location = NoLocation
    /\ call.data # EmptyMap
    /\ DOMAIN call.data \cap DOMAIN dispatch = {}
    /\ ~HasRecord(prev.st, "memory", call.cluster)
    /\ HasRecord(St, "memory", call.cluster)
    /\ mem[call.cluster] = EmptyMap
    /\ hasDisk
    /\ disk[DiskStore_cluster_path(call.cluster)] = EmptyMap

====
